---------------------------- MODULE Spec2Model ----------------------------
(***************************************************************************)
(* The PrimeKG triple-to-graph pipeline of data/1_Primekg2Neo4jTriple.py:  *)
(* main() loads two triple files and one property file, builds the node    *)
(* table and the relationship table, and writes nodes.csv,                 *)
(* relationships.csv and a copy of the property file.                      *)
(*                                                                         *)
(* A CSV cell is a sequence of one-character strings; the empty sequence   *)
(* is the null cell (pandas reads an empty field as NaN and writes NaN and *)
(* None as an empty field).  A DataFrame is a sequence of records.         *)
(***************************************************************************)
EXTENDS Integers, Sequences, FiniteSets, TLC

\* ------------------------------------------------------------------ bounds
MaxTriples == 2
MaxProps == 2

\* ------------------------------------------------------------------- cells
NaN == << >>
notna(v) == v # NaN

Digits == <<"0", "1", "2", "3", "4", "5", "6", "7", "8", "9">>

RECURSIVE str(_)
str(k) == IF k < 10 THEN <<Digits[k + 1]>> ELSE str(k \div 10) \o <<Digits[(k % 10) + 1]>>

startswith(s, p) == Len(s) >= Len(p) /\ SubSeq(s, 1, Len(p)) = p

es_prefix == <<"e", "s", "_">>
n_prefix == <<"n", "_">>
s_prefix == <<"s", "_">>
source == <<"s", "o", "u", "r", "c", "e">>
SOURCE == <<"S", "O", "U", "R", "C", "E">>

\* ------------------------------------------------------ DataFrame helpers
\* DataFrame.drop_duplicates(): keep the first of equal rows, in order.
drop_duplicates(rows) ==
  LET f[i \in 0..Len(rows)] ==
        IF i = 0 THEN << >>
        ELSE IF \E j \in 1..(i - 1) : rows[j] = rows[i] THEN f[i - 1]
        ELSE Append(f[i - 1], rows[i])
  IN f[Len(rows)]

\* Series.dropna(): the non-null cells, in order.
dropna(cells) == SelectSeq(cells, notna)

\* pd.concat of a sequence of frames (row-wise).
RECURSIVE concat(_)
concat(frames) == IF frames = << >> THEN << >> ELSE Head(frames) \o concat(Tail(frames))

Column(rows, c) == [i \in 1..Len(rows) |-> rows[i][c]]

\* ------------------------------------------------------------ input domain
drug == <<"d", "r", "u", "g">>
Rel == <<"R">>
es_1 == <<"e", "s", "_", "1">>
es_2 == <<"e", "s", "_", "2">>

Triple(xt, xn, r, yt, yn, xs, ys) ==
  [x_type |-> xt, x_name |-> xn, relation |-> r, y_type |-> yt, y_name |-> yn,
   x_source |-> xs, y_source |-> ys]

\* The triple rows: the base row (drug a -R-> drug b, cited as "G" on both
\* sides) and the rows that differ from it in one cell: a subject of the source
\* type whose name is also a source string, an object without a name, no
\* relation, a subject cited by a pre-qualified external ID or not at all, an
\* object cited by the lower-cased spelling "g" or not at all.  Every row
\* cites a source on at least one side.
TripleRows ==
  {Triple(drug, <<"a">>, Rel, drug, <<"b">>, <<"G">>, <<"G">>),
   Triple(source, <<"G">>, Rel, drug, <<"b">>, <<"G">>, <<"G">>),
   Triple(drug, <<"a">>, Rel, drug, NaN, <<"G">>, <<"G">>),
   Triple(drug, <<"a">>, NaN, drug, <<"b">>, <<"G">>, <<"G">>)}
  \cup {Triple(drug, <<"a">>, Rel, drug, <<"b">>, s, <<"G">>) : s \in {es_1, NaN}}
  \cup {Triple(drug, <<"a">>, Rel, drug, <<"b">>, <<"G">>, s) : s \in {<<"g">>, NaN}}

Property(id, sec) ==
  [external_source_id |-> id, source_primary |-> <<"N">>, source_secondary |-> sec,
   title |-> <<"T">>, source_link |-> <<"L">>, source_date |-> NaN,
   pubmed_id |-> NaN, country_of_origin |-> NaN]

\* The property rows: two external IDs, with the secondary name "G" or none.
PropertyRows == {Property(es_1, <<"G">>), Property(es_1, NaN), Property(es_2, <<"G">>)}

Tables(Rows, lo, hi) == UNION {[1..n -> Rows] : n \in lo..hi}

\* -------------------------------------------------------------- file names
kg_csv == "input/1_kg.csv"
other_csv == "input/2_other_resources_triple.csv"
property_csv == "input/3_other_resources_property.csv"
nodes_csv == "output/nodes.csv"
relationships_csv == "output/relationships.csv"
property_copy == "output/other_resources_property.csv"

\* As write_file, but an existing file is appended to (to_csv(mode='a')).
write_file_append(files, path, rows) ==
  [p \in DOMAIN files \cup {path} |->
     IF p = path THEN (IF path \in DOMAIN files THEN files[path] \o rows ELSE rows)
     ELSE files[p]]

\* DataFrame.to_csv / shutil.copy: the file at path holds exactly rows.
write_file(files, path, rows) ==
  [p \in DOMAIN files \cup {path} |-> IF p = path THEN rows ELSE files[p]]

\* --------------------------------------------------------- load_data_files
\* DataFrame.columns of a table with rows: a column missing from the file's
\* header is a field missing from every row.
columns(rows) == UNION {DOMAIN rows[i] : i \in 1..Len(rows)}

\* rows[cols] raises no KeyError.
has_columns(rows, cols) == \A i \in 1..Len(rows) : cols \subseteq DOMAIN rows[i]

\* pd.concat aligns the frames on the union of their columns; a cell of a
\* column the frame did not have is NaN.
align(rows, cols) ==
  [i \in 1..Len(rows) |->
     [c \in cols |-> IF c \in DOMAIN rows[i] THEN rows[i][c] ELSE NaN]]

load_data_files(primekg_rows, other_rows) ==
  IF other_rows # << >>
  THEN LET cols == columns(primekg_rows) \cup columns(other_rows)
       IN concat(<<align(primekg_rows, cols), align(other_rows, cols)>>)
  ELSE primekg_rows

load_properties(rows) == rows

\* -------------------------------------------------- create_nodes_dataframe
\* As create_nodes_dataframe, but the endpoints are taken row by row (subject
\* and object of a row together) instead of all subjects before all objects.
create_nodes_dataframe_by_row(df) ==
  LET pairs == concat([i \in 1..Len(df) |->
                         <<[TYPE |-> df[i].x_type, NAME |-> df[i].x_name],
                           [TYPE |-> df[i].y_type, NAME |-> df[i].y_name]>>])
      nodes == drop_duplicates(pairs)
  IN [i \in 1..Len(nodes) |->
        [TYPE |-> nodes[i].TYPE, NAME |-> nodes[i].NAME,
         NODE_ID |-> n_prefix \o str(i - 1)]]

create_nodes_dataframe(df) ==
  LET x_nodes == [i \in 1..Len(df) |-> [TYPE |-> df[i].x_type, NAME |-> df[i].x_name]]
      y_nodes == [i \in 1..Len(df) |-> [TYPE |-> df[i].y_type, NAME |-> df[i].y_name]]
      nodes == drop_duplicates(concat(<<x_nodes, y_nodes>>))
  IN [i \in 1..Len(nodes) |->
        [TYPE |-> nodes[i].TYPE, NAME |-> nodes[i].NAME,
         NODE_ID |-> n_prefix \o str(i - 1)]]


\* ----------------------------------------------------- create_source_nodes
\* Series.unique(): the distinct cells in first-seen order.
unique(cells) == drop_duplicates(cells)

\* The dict built by lines 109-113: a later row replaces an earlier one with
\* the same source_secondary.
source_mapping(properties_df) ==
  LET keyed == {i \in 1..Len(properties_df) : notna(properties_df[i].source_secondary)}
      last(s) == CHOOSE i \in keyed :
                   /\ properties_df[i].source_secondary = s
                   /\ \A j \in keyed : properties_df[j].source_secondary = s => j <= i
  IN [s \in {properties_df[i].source_secondary : i \in keyed} |->
        properties_df[last(s)].external_source_id]

\* dict.get(key, default)
get(mapping, key, default) == IF key \in DOMAIN mapping THEN mapping[key] ELSE default

\* Lines 116-122: the NAME of the source node of every distinct source string.
source_ids(df, properties_df) ==
  LET mapping == IF properties_df # << >> THEN source_mapping(properties_df) ELSE << >>
      sources == unique(concat(<<dropna(Column(df, "x_source")),
                                 dropna(Column(df, "y_source"))>>))
  IN [i \in 1..Len(sources) |->
        IF startswith(sources[i], es_prefix) THEN sources[i]
        ELSE get(mapping, sources[i], sources[i])]

\* One row of the base source frame (lines 125-134): no properties yet.
base_source_node(name) ==
  [TYPE |-> source, NAME |-> name, source_primary |-> NaN, source_secondary |-> NaN,
   source_link |-> NaN, source_date |-> NaN, pubmed_id |-> NaN,
   country_of_origin |-> NaN, title |-> NaN]

\* Lines 130-131.
property_columns ==
  {"source_primary", "source_secondary", "source_link", "source_date",
   "pubmed_id", "country_of_origin"}

\* As merge_properties, but the j-th merged row takes its values from the
\* j-th row of the property table instead of the j-th matching row.
merge_properties_by_position(name, properties_df) ==
  LET matches == SelectSeq(properties_df, LAMBDA p : p.external_source_id = name)
  IN IF matches = << >> THEN <<base_source_node(name)>>
     ELSE [j \in 1..Len(matches) |->
             [TYPE |-> source, NAME |-> name,
              source_primary |-> properties_df[j].source_primary,
              source_secondary |-> properties_df[j].source_secondary,
              source_link |-> properties_df[j].source_link,
              source_date |-> properties_df[j].source_date,
              pubmed_id |-> properties_df[j].pubmed_id,
              country_of_origin |-> properties_df[j].country_of_origin,
              title |-> properties_df[j].title]]

\* Lines 139-155 for one left row: a left merge on NAME = external_source_id
\* yields one row per matching property row (in the property table's order),
\* carrying that row's properties and title, or the row itself when none matches.
merge_properties(name, properties_df) ==
  LET matches == SelectSeq(properties_df, LAMBDA p : p.external_source_id = name)
  IN IF matches = << >> THEN <<base_source_node(name)>>
     ELSE [j \in 1..Len(matches) |->
             [TYPE |-> source, NAME |-> name,
              source_primary |-> matches[j].source_primary,
              source_secondary |-> matches[j].source_secondary,
              source_link |-> matches[j].source_link,
              source_date |-> matches[j].source_date,
              pubmed_id |-> matches[j].pubmed_id,
              country_of_origin |-> matches[j].country_of_origin,
              title |-> matches[j].title]]

\* As source_node_id, but every row is numbered, whatever its prefix.
source_node_id_numbered(rows, i) ==
  s_prefix \o str((CHOOSE k \in 1..Len(rows) :
                     /\ rows[k].NAME = rows[i].NAME
                     /\ \A j \in 1..(k - 1) : rows[j].NAME # rows[i].NAME) - 1)

\* As source_node_id, but a bare row is numbered by the count of bare rows
\* before the first row with the same NAME (dense s_ numbers).
source_node_id_dense(rows, i) ==
  IF startswith(rows[i].NAME, es_prefix) THEN rows[i].NAME
  ELSE LET first == CHOOSE k \in 1..Len(rows) :
                      /\ rows[k].NAME = rows[i].NAME
                      /\ \A j \in 1..(k - 1) : rows[j].NAME # rows[i].NAME
       IN s_prefix \o str(Cardinality({j \in 1..(first - 1) :
                                         ~startswith(rows[j].NAME, es_prefix)}))

\* Lines 158-162: the es_ name itself, or s_ and the index of the first row
\* with the same NAME.
source_node_id(rows, i) ==
  IF startswith(rows[i].NAME, es_prefix) THEN rows[i].NAME
  ELSE s_prefix \o str((CHOOSE k \in 1..Len(rows) :
                          /\ rows[k].NAME = rows[i].NAME
                          /\ \A j \in 1..(k - 1) : rows[j].NAME # rows[i].NAME) - 1)

create_source_nodes(df, properties_df) ==
  LET ids == source_ids(df, properties_df)
      merged == IF properties_df # << >>
                THEN concat([i \in 1..Len(ids) |-> merge_properties(ids[i], properties_df)])
                ELSE [i \in 1..Len(ids) |-> base_source_node(ids[i])]
  IN [i \in 1..Len(merged) |-> merged[i] @@ [NODE_ID |-> source_node_id(merged, i)]]

\* ----------------------------------------------------------- process_nodes
NodeColumns ==
  {"TYPE", "NAME", "NODE_ID", "source_primary", "source_secondary", "source_link",
   "source_date", "pubmed_id", "country_of_origin", "title"}

\* pd.concat aligns the columns of the two frames: a column a frame lacks is
\* null in its rows.
reindex(row) == [c \in NodeColumns |-> IF c \in DOMAIN row THEN row[c] ELSE NaN]

process_nodes(nodes, sources) ==
  LET all == concat(<<nodes, sources>>)
  IN drop_duplicates([i \in 1..Len(all) |-> reindex(all[i])])

\* ---------------------------------------------------- create_relationships
\* As merge_node, but a null key matches nothing (the SQL join rule).
merge_node_sql(row, nodes, tcol, ncol, idcol) ==
  LET matches == SelectSeq(nodes, LAMBDA n : /\ notna(row[tcol]) /\ notna(row[ncol])
                                             /\ n.TYPE = row[tcol] /\ n.NAME = row[ncol])
  IN IF matches = << >> THEN <<row @@ (idcol :> NaN)>>
     ELSE [j \in 1..Len(matches) |-> row @@ (idcol :> matches[j].NODE_ID)]

\* DataFrame.merge(how='left') on (type, name) = (TYPE, NAME) for one left
\* row: one row per matching node (null keys match null keys), in node order,
\* with the node's NODE_ID in column idcol; the row with a null ID when no
\* node matches.
merge_node(row, nodes, tcol, ncol, idcol) ==
  LET matches == SelectSeq(nodes, LAMBDA n : n.TYPE = row[tcol] /\ n.NAME = row[ncol])
  IN IF matches = << >> THEN <<row @@ (idcol :> NaN)>>
     ELSE [j \in 1..Len(matches) |-> row @@ (idcol :> matches[j].NODE_ID)]

create_relationships(df, nodes) ==
  LET with_x == concat([i \in 1..Len(df) |->
                          merge_node(df[i], nodes, "x_type", "x_name", "START_ID")])
  IN concat([i \in 1..Len(with_x) |->
               merge_node(with_x[i], nodes, "y_type", "y_name", "END_ID")])

\* ---------------------------------------------- create_relations_dataframe
Edge(start, end, type) == [START_ID |-> start, END_ID |-> end, TYPE |-> type]

\* As match_source, but a source node is matched by source_secondary only,
\* not by NAME.
match_source_by_secondary(source_nodes, raw) ==
  IF startswith(raw, es_prefix) THEN [source_nodes |-> source_nodes, source_id |-> raw]
  ELSE LET matching_sources ==
             SelectSeq(source_nodes,
                       LAMBDA n : notna(n.source_secondary) /\ n.source_secondary = raw)
           new_id == s_prefix \o str(Len(source_nodes))
       IN IF matching_sources # << >>
          THEN [source_nodes |-> source_nodes, source_id |-> matching_sources[1].NODE_ID]
          ELSE [source_nodes |->
                  Append(source_nodes,
                         reindex([TYPE |-> source, NAME |-> new_id, NODE_ID |-> new_id,
                                  source_secondary |-> raw])),
                source_id |-> new_id]

\* As match_source, but a source node is matched by NAME only, not by
\* source_secondary.
match_source_by_name(source_nodes, raw) ==
  IF startswith(raw, es_prefix) THEN [source_nodes |-> source_nodes, source_id |-> raw]
  ELSE LET matching_sources == SelectSeq(source_nodes, LAMBDA n : n.NAME = raw)
           new_id == s_prefix \o str(Len(source_nodes))
       IN IF matching_sources # << >>
          THEN [source_nodes |-> source_nodes, source_id |-> matching_sources[1].NODE_ID]
          ELSE [source_nodes |->
                  Append(source_nodes,
                         reindex([TYPE |-> source, NAME |-> new_id, NODE_ID |-> new_id,
                                  source_secondary |-> raw])),
                source_id |-> new_id]

\* Lines 229-247 (and their copy for y_source, 255-273): the ID a SOURCE edge
\* ends at, and the local source frame, which grows when nothing matches.
match_source(source_nodes, raw) ==
  IF startswith(raw, es_prefix) THEN [source_nodes |-> source_nodes, source_id |-> raw]
  ELSE LET matching_sources ==
             SelectSeq(source_nodes,
                       LAMBDA n : \/ notna(n.source_secondary) /\ n.source_secondary = raw
                                  \/ n.NAME = raw)
           new_id == s_prefix \o str(Len(source_nodes))
       IN IF matching_sources # << >>
          THEN [source_nodes |-> source_nodes, source_id |-> matching_sources[1].NODE_ID]
          ELSE [source_nodes |->
                  Append(source_nodes,
                         reindex([TYPE |-> source, NAME |-> new_id, NODE_ID |-> new_id,
                                  source_secondary |-> raw])),
                source_id |-> new_id]

\* The loop of lines 226-278 from row i on: x_source of a row before its
\* y_source, rows in order.
RECURSIVE source_loop(_, _, _, _)
source_loop(df, i, source_nodes, source_relations) ==
  IF i > Len(df) THEN [source_nodes |-> source_nodes, source_relations |-> source_relations]
  ELSE LET row == df[i]
           x == IF notna(row.x_source) THEN match_source(source_nodes, row.x_source)
                ELSE [source_nodes |-> source_nodes, source_id |-> NaN]
           after_x == IF notna(row.x_source)
                      THEN Append(source_relations, Edge(row.START_ID, x.source_id, SOURCE))
                      ELSE source_relations
           y == IF notna(row.y_source) THEN match_source(x.source_nodes, row.y_source)
                ELSE [source_nodes |-> x.source_nodes, source_id |-> NaN]
           after_y == IF notna(row.y_source)
                      THEN Append(after_x, Edge(row.END_ID, y.source_id, SOURCE))
                      ELSE after_x
       IN source_loop(df, i + 1, y.source_nodes, after_y)

\* Line 222: the rows with START_ID, END_ID and relation all non-null.
main_relations(df) ==
  LET kept == SelectSeq(df, LAMBDA r : notna(r.START_ID) /\ notna(r.END_ID)
                                       /\ notna(r.relation))
  IN [i \in 1..Len(kept) |-> Edge(kept[i].START_ID, kept[i].END_ID, kept[i].relation)]

create_relations_dataframe(df, nodes) ==
  LET source_nodes == SelectSeq(nodes, LAMBDA n : n.TYPE = source)
  IN concat(<<main_relations(df),
              source_loop(df, 1, source_nodes, << >>).source_relations>>)

\* -------------------------------------------------------------------- state
VARIABLES
  fs,             \* the files on disk: path -> rows
  pc,             \* the statement of main() to run next
  df,             \* main's df: the triple table, later the joined table
  properties_df,  \* main's properties_df
  nodes_df,       \* main's nodes_df
  source_nodes,   \* main's source_nodes
  relations_df,   \* main's relations_df
  rerun,          \* whether the script has been started a second time
  first_output    \* the output files as they were when this run started

\* Two runs of the script started side by side in one working directory.
VARIABLES
  run_pc,         \* run -> the statement of main() it runs next
  env,            \* run -> main's env
  last_input,     \* run -> what was last typed at the prompt of select_environment
  accessed        \* run -> the paths the run has read, written or created

run_vars == <<run_pc, env, last_input, accessed>>

\* No second program is running.
RunsIdle ==
  /\ run_pc = << >> /\ env = << >> /\ last_input = << >> /\ accessed = << >>

\* The Neo4j import script.
VARIABLES
  script,         \* which import script runs: "data" or "pre_process_data"
  importer_pc,    \* the method the script calls next
  db,             \* the database: the kinds of data and the indexes it holds
  driver,         \* importer.driver: "open" or "closed"
  calls,          \* the methods called so far, in order
  raised          \* the method whose exception ended the try block, or "none"

import_vars == <<script, importer_pc, db, driver, calls, raised>>

\* No import is running.
ImporterIdle ==
  /\ script = "none" /\ importer_pc = "idle" /\ db = << >> /\ driver = "none"
  /\ calls = << >> /\ raised = "none"

\* The dashboard's data loader.
VARIABLES
  loader_pc,          \* the statement of load_data to run next
  source_properties,  \* load_data's source_properties
  loaded_nodes        \* load_data's nodes_df

loader_vars == <<loader_pc, source_properties, loaded_nodes>>

\* The dashboard is not running.
LoaderIdle == loader_pc = "idle" /\ source_properties = << >> /\ loaded_nodes = << >>

other_programs == <<run_vars, import_vars, loader_vars>>

OtherProgramsIdle == RunsIdle /\ ImporterIdle /\ LoaderIdle

main_vars == <<fs, pc, df, properties_df, nodes_df, source_nodes, relations_df, rerun,
               first_output>>

vars == <<main_vars, other_programs>>

OutputFiles == {nodes_csv, relationships_csv, property_copy}

\* The input files of a run; the output directory is empty.  The first
\* triple file holds the first row, the second file the others (none when
\* there is one row).
Init ==
  \E rows \in Tables(TripleRows, 1, MaxTriples), props \in Tables(PropertyRows, 0, MaxProps) :
      /\ fs = [p \in {kg_csv, other_csv, property_csv} |->
                 CASE p = kg_csv -> SubSeq(rows, 1, 1)
                   [] p = other_csv -> SubSeq(rows, 2, Len(rows))
                   [] p = property_csv -> props]
      /\ pc = "load"
      /\ df = << >>
      /\ properties_df = << >>
      /\ nodes_df = << >>
      /\ source_nodes = << >>
      /\ relations_df = << >>
      /\ rerun = FALSE
      /\ OtherProgramsIdle
      /\ first_output = << >>

\* main, lines 299-303; pd.read_csv of a missing file raises FileNotFoundError.
LoadData ==
  /\ pc = "load"
  /\ IF {kg_csv, other_csv, property_csv} \subseteq DOMAIN fs
     THEN /\ df' = load_data_files(fs[kg_csv], fs[other_csv])
          /\ properties_df' = load_properties(fs[property_csv])
          /\ pc' = "create_nodes"
     ELSE /\ pc' = "input_error"
          /\ UNCHANGED <<df, properties_df>>
  /\ UNCHANGED <<fs, nodes_df, source_nodes, relations_df, rerun,
                 other_programs, first_output>>

\* main, line 307; lines 80 and 85 raise KeyError without their columns.
CreateNodes ==
  /\ pc = "create_nodes"
  /\ IF has_columns(df, {"x_type", "x_name", "y_type", "y_name"})
     THEN /\ nodes_df' = create_nodes_dataframe(df)
          /\ pc' = "create_source_nodes"
     ELSE /\ pc' = "input_error"
          /\ UNCHANGED nodes_df
  /\ UNCHANGED <<fs, df, properties_df, source_nodes, relations_df, rerun,
                 other_programs, first_output>>

\* The columns create_source_nodes reads from a property table with rows
\* (lines 112, 113, 142 and 149); title is not read.
required_property_columns == {"external_source_id"} \cup property_columns

\* main, line 308; lines 112-113, 117, 139-144 and 149 raise KeyError without
\* their columns.
CreateSourceNodes ==
  /\ pc = "create_source_nodes"
  /\ IF /\ has_columns(df, {"x_source", "y_source"})
        /\ has_columns(properties_df, required_property_columns)
     THEN /\ source_nodes' = create_source_nodes(df, properties_df)
          /\ pc' = "process_nodes"
     ELSE /\ pc' = "input_error"
          /\ UNCHANGED source_nodes
  /\ UNCHANGED <<fs, df, properties_df, nodes_df, relations_df, rerun,
                 other_programs, first_output>>

\* main, line 309
ProcessNodes ==
  /\ pc = "process_nodes"
  /\ nodes_df' = process_nodes(nodes_df, source_nodes)
  /\ pc' = "create_relationships"
  /\ UNCHANGED <<fs, df, properties_df, source_nodes, relations_df, rerun,
                 other_programs, first_output>>

\* main, line 313
CreateRelationships ==
  /\ pc = "create_relationships"
  /\ df' = create_relationships(df, nodes_df)
  /\ pc' = "create_relations"
  /\ UNCHANGED <<fs, properties_df, nodes_df, source_nodes, relations_df, rerun, other_programs,
                 first_output>>

\* main, line 314; line 222 raises KeyError without the relation column.
CreateRelations ==
  /\ pc = "create_relations"
  /\ IF has_columns(df, {"relation"})
     THEN /\ relations_df' = create_relations_dataframe(df, nodes_df)
          /\ pc' = "save_nodes"
     ELSE /\ pc' = "input_error"
          /\ UNCHANGED relations_df
  /\ UNCHANGED <<fs, df, properties_df, nodes_df, source_nodes, rerun,
                 other_programs, first_output>>

\* main, line 318
SaveNodes ==
  /\ pc = "save_nodes"
  /\ fs' = write_file(fs, nodes_csv, nodes_df)
  /\ pc' = "save_relationships"
  /\ UNCHANGED <<df, properties_df, nodes_df, source_nodes, relations_df, rerun, other_programs,
                 first_output>>

\* main, line 319
SaveRelationships ==
  /\ pc = "save_relationships"
  /\ fs' = write_file(fs, relationships_csv, relations_df)
  /\ pc' = "copy_properties"
  /\ UNCHANGED <<df, properties_df, nodes_df, source_nodes, relations_df, rerun, other_programs,
                 first_output>>

\* main, lines 323-326
CopyProperties ==
  /\ pc = "copy_properties"
  /\ fs' = write_file(fs, property_copy, fs[property_csv])
  /\ pc' = "done"
  /\ UNCHANGED <<df, properties_df, nodes_df, source_nodes, relations_df, rerun, other_programs,
                 first_output>>

\* The script is started again on the same directory (lines 332-333): main's
\* locals are fresh, the files are as the first run left them.
Rerun ==
  /\ pc = "done"
  /\ ~rerun
  /\ rerun' = TRUE
  /\ first_output' = [p \in OutputFiles |-> fs[p]]
  /\ pc' = "load"
  /\ df' = << >>
  /\ properties_df' = << >>
  /\ nodes_df' = << >>
  /\ source_nodes' = << >>
  /\ relations_df' = << >>
  /\ UNCHANGED <<fs, other_programs>>

Next ==
  \/ LoadData
  \/ CreateNodes
  \/ CreateSourceNodes
  \/ ProcessNodes
  \/ CreateRelationships
  \/ CreateRelations
  \/ SaveNodes
  \/ SaveRelationships
  \/ CopyProperties
  \/ Rerun

Spec == Init /\ [][Next]_vars

\* ------------------------------------------------- input and output errors
\* The triple rows of the runs with errors: the base row and the row citing
\* an external ID.
ErrorTripleRows ==
  {Triple(drug, <<"a">>, Rel, drug, <<"b">>, <<"G">>, <<"G">>),
   Triple(drug, <<"a">>, Rel, drug, <<"b">>, es_1, <<"G">>)}

triple_columns ==
  {"x_type", "x_name", "relation", "y_type", "y_name", "x_source", "y_source"}

\* The rows of a file whose header lacks column col.
drop_column(rows, col) ==
  [i \in 1..Len(rows) |-> [c \in (DOMAIN rows[i]) \ {col} |-> rows[i][c]]]

\* What an earlier run, over other inputs, left in an output file.
previous_output == <<[TYPE |-> drug, NAME |-> <<"o">>, NODE_ID |-> n_prefix \o <<"9">>]>>

InputFiles == {kg_csv, other_csv, property_csv}

\* What is wrong with the input files: nothing, one file is missing, or the
\* header of one file lacks one of the columns the pipeline reads.
InputFaults ==
  {<<"none", "", "">>}
  \cup {<<"file", p, "">> : p \in InputFiles}
  \cup {<<"column", p, c>> : p \in {kg_csv, other_csv}, c \in triple_columns}
  \cup {<<"column", property_csv, c>> : c \in required_property_columns}

\* The directory before a run: the input files with one of the faults, and
\* an output directory that is empty or holds the three files of an earlier
\* run.
InitIO ==
  \E rows \in Tables(ErrorTripleRows, 1, MaxTriples),
     props \in Tables({Property(es_1, <<"G">>)}, 0, 1),
     fault \in InputFaults,
     old \in BOOLEAN :
      /\ LET content == [p \in InputFiles |->
                           CASE p = kg_csv -> SubSeq(rows, 1, 1)
                             [] p = other_csv -> SubSeq(rows, 2, Len(rows))
                             [] p = property_csv -> props]
             present == IF fault[1] = "file" THEN InputFiles \ {fault[2]} ELSE InputFiles
             inputs == [p \in present |->
                          IF fault[1] = "column" /\ fault[2] = p
                          THEN drop_column(content[p], fault[3])
                          ELSE content[p]]
             outputs == [p \in (IF old THEN OutputFiles ELSE {}) |-> previous_output]
         IN /\ fs = inputs @@ outputs
            /\ first_output = outputs
      /\ pc = "load"
      /\ df = << >>
      /\ properties_df = << >>
      /\ nodes_df = << >>
      /\ source_nodes = << >>
      /\ relations_df = << >>
      /\ rerun = FALSE
      /\ OtherProgramsIdle

\* A write that fails after the file was opened for writing (to_csv and
\* shutil.copy write to the final path itself): the path holds the rows
\* written so far, fewer than all.
failed_write(files, path, rows, k) == write_file(files, path, SubSeq(rows, 1, k))

\* main, line 318, failing (disk full, I/O error)
SaveNodesFails ==
  /\ pc = "save_nodes"
  /\ \E k \in 0..(Len(nodes_df) - 1) : fs' = failed_write(fs, nodes_csv, nodes_df, k)
  /\ pc' = "output_error"
  /\ UNCHANGED <<df, properties_df, nodes_df, source_nodes, relations_df, rerun, other_programs,
                 first_output>>

\* main, line 319, failing
SaveRelationshipsFails ==
  /\ pc = "save_relationships"
  /\ \E k \in 0..(Len(relations_df) - 1) :
       fs' = failed_write(fs, relationships_csv, relations_df, k)
  /\ pc' = "output_error"
  /\ UNCHANGED <<df, properties_df, nodes_df, source_nodes, relations_df, rerun, other_programs,
                 first_output>>

\* main, lines 323-326, failing
CopyPropertiesFails ==
  /\ pc = "copy_properties"
  /\ \E k \in 0..(Len(fs[property_csv]) - 1) :
       fs' = failed_write(fs, property_copy, fs[property_csv], k)
  /\ pc' = "output_error"
  /\ UNCHANGED <<df, properties_df, nodes_df, source_nodes, relations_df, rerun, other_programs,
                 first_output>>

NextIO ==
  \/ LoadData
  \/ CreateNodes
  \/ CreateSourceNodes
  \/ ProcessNodes
  \/ CreateRelationships
  \/ CreateRelations
  \/ SaveNodes
  \/ SaveRelationships
  \/ CopyProperties
  \/ Rerun
  \/ SaveNodesFails
  \/ SaveRelationshipsFails
  \/ CopyPropertiesFails

SpecIO == InitIO /\ [][NextIO]_vars

\* ---------------------------------------------- what the claims speak about
\* The tables on disk, and the inputs they were built from.
InputTriples == fs[kg_csv] \o fs[other_csv]
InputProperties == fs[property_csv]
\* A run has finished: the three output files are those it wrote.
RunFinished == pc = "done"
NodesOut == fs[nodes_csv]
RelationshipsOut == fs[relationships_csv]

Range(rows) == {rows[i] : i \in 1..Len(rows)}

CitedSources ==
  ({t.x_source : t \in Range(InputTriples)} \cup {t.y_source : t \in Range(InputTriples)})
  \ {NaN}

IsEntityId(id) == startswith(id, n_prefix)
IsBareSourceId(id) == startswith(id, s_prefix)
IsExternalId(id) == startswith(id, es_prefix)

UpperCase ==
  <<"A", "B", "C", "D", "E", "F", "G", "H", "I", "J", "K", "L", "M", "N", "O", "P",
    "Q", "R", "S", "T", "U", "V", "W", "X", "Y", "Z">>
LowerCase ==
  <<"a", "b", "c", "d", "e", "f", "g", "h", "i", "j", "k", "l", "m", "n", "o", "p",
    "q", "r", "s", "t", "u", "v", "w", "x", "y", "z">>

\* The spec's normal forms of a spelling: lower-cased, and the alphanumeric fold.
lower_char(c) ==
  IF \E k \in 1..26 : UpperCase[k] = c
  THEN LowerCase[CHOOSE k \in 1..26 : UpperCase[k] = c] ELSE c
lower(s) == [i \in 1..Len(s) |-> lower_char(s[i])]
isalnum(c) == \E k \in 1..26 : LowerCase[k] = c \/ UpperCase[k] = c \/ (k <= 10 /\ Digits[k] = c)
fold(s) == SelectSeq(lower(s), isalnum)

\* The spellings the spec registers for a property record.
Aliases(p) ==
  {p.external_source_id, p.source_secondary, lower(p.source_secondary),
   fold(p.source_secondary), p.title} \ {NaN}

\* C1: no two rows of the node table written to nodes.csv share a NODE_ID.
C1_NodeIdUnique ==
  RunFinished =>
    \A i, j \in 1..Len(NodesOut) : i # j => NodesOut[i].NODE_ID # NodesOut[j].NODE_ID

\* C2: every row of relationships.csv has non-null START_ID and END_ID, each
\* the NODE_ID of a row of the nodes.csv of the same run.
C2_EdgeEndpointsExist ==
  RunFinished =>
    \A e \in Range(RelationshipsOut) :
      /\ notna(e.START_ID) /\ notna(e.END_ID)
      /\ \E n \in Range(NodesOut) : n.NODE_ID = e.START_ID
      /\ \E n \in Range(NodesOut) : n.NODE_ID = e.END_ID

\* C2's case: a run wrote SOURCE edges to a known source (resolved by its
\* secondary name), to a bare source and a main edge.
C2_Witness ==
  /\ RunFinished
  /\ \E e \in Range(RelationshipsOut) : e.TYPE = SOURCE /\ IsExternalId(e.END_ID)
  /\ \E e \in Range(RelationshipsOut) : e.TYPE = SOURCE /\ IsBareSourceId(e.END_ID)
  /\ \E e \in Range(RelationshipsOut) : e.TYPE = Rel
  /\ <<"G">> \in CitedSources /\ es_1 \notin CitedSources

\* C3: for every external_source_id e of the property table that some triple
\* side cites (as e itself or as a secondary name that only records of e
\* carry), the node table holds exactly one row with NODE_ID e.
SecondaryOnlyOf(s, e) ==
  \A q \in Range(InputProperties) : q.source_secondary = s => q.external_source_id = e
CitesRecord(e) ==
  \/ e \in CitedSources
  \/ \E p \in Range(InputProperties) :
       /\ p.external_source_id = e
       /\ p.source_secondary \in CitedSources
       /\ SecondaryOnlyOf(p.source_secondary, e)
C3_OneNodePerExternalId ==
  RunFinished =>
    \A p \in Range(InputProperties) :
      CitesRecord(p.external_source_id) =>
        Cardinality({i \in 1..Len(NodesOut) :
                       NodesOut[i].NODE_ID = p.external_source_id}) = 1

\* C4: a cited spelling that is an alias of one property record (its ID, its
\* secondary name, that name lower-cased or folded, its title) resolves to
\* the record's node: the node table holds a node with the record's ID and no
\* bare source node named by the spelling.
UnambiguousAlias(s, p) ==
  /\ s \in Aliases(p)
  /\ \A q \in Range(InputProperties) :
       s \in Aliases(q) => q.external_source_id = p.external_source_id
C4_AliasCollapse ==
  RunFinished =>
    \A p \in Range(InputProperties) : \A s \in CitedSources :
      UnambiguousAlias(s, p) =>
        /\ \E n \in Range(NodesOut) : n.NODE_ID = p.external_source_id
        /\ ~ \E n \in Range(NodesOut) : IsBareSourceId(n.NODE_ID) /\ n.NAME = s

\* C5: the cited spellings of one bare source (no property record has an
\* alias with the same fold) that differ only by case or by surrounding
\* whitespace share one bare source node.
IsBare(s) ==
  /\ ~ IsExternalId(s)
  /\ \A p \in Range(InputProperties) : \A a \in Aliases(p) : fold(a) # fold(s)
C5_BareSourceStable ==
  RunFinished =>
    \A s \in CitedSources :
      IsBare(s) =>
        Cardinality({i \in 1..Len(NodesOut) :
                       /\ IsBareSourceId(NodesOut[i].NODE_ID)
                       /\ fold(NodesOut[i].NAME) = fold(s)}) = 1

\* The SOURCE edges of relationships.csv, in row order.
SourceEdgesOut == SelectSeq(RelationshipsOut, LAMBDA e : e.TYPE = SOURCE)

\* C6: every SOURCE edge ends at a node of TYPE source and starts at an
\* entity (n_) node that is an endpoint of some triple; none runs from a
\* source node to an entity node.
C6_SourceEdgeDirection ==
  RunFinished =>
    \A e \in Range(SourceEdgesOut) :
      /\ \E n \in Range(NodesOut) : n.NODE_ID = e.END_ID /\ n.TYPE = source
      /\ \E n \in Range(NodesOut) :
           /\ n.NODE_ID = e.START_ID /\ IsEntityId(n.NODE_ID)
           /\ \E t \in Range(InputTriples) :
                \/ (n.TYPE = t.x_type /\ n.NAME = t.x_name)
                \/ (n.TYPE = t.y_type /\ n.NAME = t.y_name)
      /\ ~ (~ IsEntityId(e.START_ID) /\ IsEntityId(e.END_ID))

\* The sides of the triples that cite a source, in row order (subject side
\* of a row before its object side): <<type, name, source string>>.
RECURSIVE CitingSides(_)
CitingSides(rows) ==
  IF rows = << >> THEN << >>
  ELSE LET t == Head(rows)
       IN (IF notna(t.x_source) THEN <<<<t.x_type, t.x_name, t.x_source>>>> ELSE << >>)
          \o (IF notna(t.y_source) THEN <<<<t.y_type, t.y_name, t.y_source>>>> ELSE << >>)
          \o CitingSides(Tail(rows))

\* The source node a source string denotes: the string itself when it is
\* pre-qualified, a record that carries it as secondary name, else the bare
\* source node named by it.
DenotesSourceNode(s, id) ==
  IF IsExternalId(s) THEN id = s
  ELSE IF \E p \in Range(InputProperties) : p.source_secondary = s
  THEN \E p \in Range(InputProperties) : p.source_secondary = s /\ p.external_source_id = id
  ELSE \E n \in Range(NodesOut) : n.NODE_ID = id /\ IsBareSourceId(id) /\ n.NAME = s

\* C7: the SOURCE edges are, one per citing triple side and in that order,
\* the edges from the entity node of the side's endpoint to the source node
\* its source string denotes; a side without a source has no edge.
C7_OneSourceEdgePerCitingSide ==
  RunFinished =>
    LET sides == CitingSides(InputTriples)
    IN /\ Len(SourceEdgesOut) = Len(sides)
       /\ \A k \in 1..Len(sides) :
            /\ \E n \in Range(NodesOut) :
                 /\ n.NODE_ID = SourceEdgesOut[k].START_ID /\ IsEntityId(n.NODE_ID)
                 /\ n.TYPE = sides[k][1] /\ n.NAME = sides[k][2]
            /\ DenotesSourceNode(sides[k][3], SourceEdgesOut[k].END_ID)

\* The entity (n_) rows of nodes.csv and the endpoints of the triples: all
\* subjects in row order, then all objects in row order.
EntityNodesOut == SelectSeq(NodesOut, LAMBDA n : IsEntityId(n.NODE_ID))
Endpoints ==
  [i \in 1..Len(InputTriples) |-> <<InputTriples[i].x_type, InputTriples[i].x_name>>]
  \o [i \in 1..Len(InputTriples) |-> <<InputTriples[i].y_type, InputTriples[i].y_name>>]
FirstSeen(pair) == CHOOSE i \in 1..Len(Endpoints) :
                     Endpoints[i] = pair /\ \A j \in 1..(i - 1) : Endpoints[j] # pair

\* C8: the entity nodes are the distinct (TYPE, NAME) pairs of the triple
\* endpoints, one node each, with the IDs n_0 .. n_(k-1) in first-seen order.
C8_EntityNodesDense ==
  RunFinished =>
    LET k == Cardinality(Range(Endpoints))
    IN /\ Len(EntityNodesOut) = k
       /\ {<<n.TYPE, n.NAME>> : n \in Range(EntityNodesOut)} = Range(Endpoints)
       /\ \A i \in 1..k : EntityNodesOut[i].NODE_ID = n_prefix \o str(i - 1)
       /\ \A i, j \in 1..k :
            i < j => FirstSeen(<<EntityNodesOut[i].TYPE, EntityNodesOut[i].NAME>>)
                       < FirstSeen(<<EntityNodesOut[j].TYPE, EntityNodesOut[j].NAME>>)

\* C8's case: a subject first seen in the second row is numbered before an
\* object first seen in the first row, and a repeated endpoint has one node.
C8_Witness ==
  /\ RunFinished
  /\ Len(InputTriples) = 2
  /\ Len(EntityNodesOut) = 3
  /\ <<EntityNodesOut[2].TYPE, EntityNodesOut[2].NAME>>
       = <<InputTriples[2].x_type, InputTriples[2].x_name>>
  /\ <<EntityNodesOut[3].TYPE, EntityNodesOut[3].NAME>>
       = <<InputTriples[1].y_type, InputTriples[1].y_name>>
  /\ InputTriples[2].y_name = InputTriples[1].y_name

\* The tables the pipeline builds from a triple table and a property table.
NodesOf(rows, props) ==
  process_nodes(create_nodes_dataframe(rows), create_source_nodes(rows, props))
RelationsOf(rows, props) ==
  create_relations_dataframe(create_relationships(rows, NodesOf(rows, props)),
                             NodesOf(rows, props))

\* C9: a triple without a subject name or without an object name is
\* excluded: the output files are those of the remaining triples.
ValidTriples ==
  SelectSeq(InputTriples, LAMBDA t : notna(t.x_name) /\ notna(t.y_name))
C9_InvalidTripleExcluded ==
  RunFinished =>
    /\ NodesOut = NodesOf(ValidTriples, InputProperties)
    /\ RelationshipsOut = RelationsOf(ValidTriples, InputProperties)

C11_SourceNodeIdForms ==
  RunFinished =>
    \A n \in Range(NodesOut) :
      n.TYPE = source =>
        \/ /\ IsExternalId(n.NODE_ID)
           /\ \E p \in Range(InputProperties) : p.external_source_id = n.NODE_ID
        \/ IsBareSourceId(n.NODE_ID)

\* The entity node of an endpoint pair.
IsNodeOf(n, type, name) == IsEntityId(n.NODE_ID) /\ n.TYPE = type /\ n.NAME = name

\* The main edge of triple t is in relationships.csv.
HasMainEdge(t) ==
  \E nx, ny \in Range(NodesOut) :
    /\ IsNodeOf(nx, t.x_type, t.x_name)
    /\ IsNodeOf(ny, t.y_type, t.y_name)
    /\ Edge(nx.NODE_ID, ny.NODE_ID, t.relation) \in Range(RelationshipsOut)

\* Every edge that is not a SOURCE edge is the main edge of some triple and
\* has no null cell.
MainEdgesFromTriples ==
  \A e \in Range(RelationshipsOut) :
    e.TYPE # SOURCE =>
      /\ notna(e.START_ID) /\ notna(e.END_ID) /\ notna(e.TYPE)
      /\ \E t \in Range(InputTriples) : \E nx, ny \in Range(NodesOut) :
           /\ t.relation = e.TYPE
           /\ nx.NODE_ID = e.START_ID /\ nx.TYPE = t.x_type /\ nx.NAME = t.x_name
           /\ ny.NODE_ID = e.END_ID /\ ny.TYPE = t.y_type /\ ny.NAME = t.y_name

C13_NoDuplicateEdges ==
  RunFinished =>
    \A i, j \in 1..Len(RelationshipsOut) :
      i # j => RelationshipsOut[i] # RelationshipsOut[j]

\* A source string denotes a record: it is the record's ID or its secondary name.
Denotes(s, p) == s = p.external_source_id \/ s = p.source_secondary

\* C14: two cited property records with different IDs have two source nodes,
\* and the SOURCE edge of a citing side ends at no other node than that of the
\* record its source string denotes, also when records share a secondary name.
C14_DistinctSourcesNotMerged ==
  RunFinished =>
    /\ \A p \in Range(InputProperties) :
         (\E s \in CitedSources : Denotes(s, p)) =>
           \E n \in Range(NodesOut) : n.NODE_ID = p.external_source_id
    /\ LET sides == CitingSides(InputTriples)
       IN Len(SourceEdgesOut) = Len(sides) =>
            \A k \in 1..Len(sides) :
              (\E p \in Range(InputProperties) : Denotes(sides[k][3], p)) =>
                \E p \in Range(InputProperties) :
                  Denotes(sides[k][3], p) /\ SourceEdgesOut[k].END_ID = p.external_source_id

\* C17: no endpoint of the source type has an entity (n_) node.
C17_NoSourceTypedEntity ==
  RunFinished => \A n \in Range(NodesOut) : IsEntityId(n.NODE_ID) => n.TYPE # source

\* A source node whose ID is that of a record of the property table.
IsKnownSourceNode(n) ==
  /\ n.TYPE = source /\ IsExternalId(n.NODE_ID)
  /\ \E p \in Range(InputProperties) : p.external_source_id = n.NODE_ID

\* C18: every source node whose ID is that of a property record carries, in
\* all six property columns, the values of a record with that ID (an empty
\* cell where the record's is empty), and so of no record with another ID.
C18_KnownSourceProperties ==
  RunFinished =>
    \A n \in Range(NodesOut) :
      IsKnownSourceNode(n) =>
        \E p \in Range(InputProperties) :
          /\ p.external_source_id = n.NODE_ID
          /\ \A col \in property_columns : n[col] = p[col]

\* C18's case: a known source node was written although the first record of
\* the property table has another ID and other values.
C18_Witness ==
  /\ RunFinished
  /\ \E n \in Range(NodesOut) :
       /\ IsKnownSourceNode(n)
       /\ InputProperties[1].external_source_id # n.NODE_ID
       /\ \E col \in property_columns : InputProperties[1][col] # n[col]

\* C19: every bare source node has a non-empty source_primary (the label of
\* the primary knowledge graph), its raw source string as source_secondary,
\* and the four other property columns empty.
C19_BareSourceProperties ==
  RunFinished =>
    \A n \in Range(NodesOut) :
      (n.TYPE = source /\ IsBareSourceId(n.NODE_ID)) =>
        /\ notna(n.source_primary)
        /\ n.source_secondary = n.NAME
        /\ \A col \in property_columns \ {"source_primary", "source_secondary"} :
             n[col] = NaN

\* C20: the loaded property table has no two rows with the same
\* external_source_id.
C20_PropertyIdUnique ==
  \A i, j \in 1..Len(properties_df) :
    i # j => properties_df[i].external_source_id # properties_df[j].external_source_id

\* The output files that exist, with their content.
OutputNow == [p \in OutputFiles \cap DOMAIN fs |-> fs[p]]

\* An input file is missing, or the header of an input file lacks a column
\* the pipeline reads.
InputError ==
  \/ ~(InputFiles \subseteq DOMAIN fs)
  \/ \E p \in {kg_csv, other_csv} \cap DOMAIN fs : ~has_columns(fs[p], triple_columns)
  \/ property_csv \in DOMAIN fs /\ ~has_columns(fs[property_csv], required_property_columns)

\* C15: a run over a missing input file, or over an input file without a
\* required column, ends in an error and at no point creates or changes
\* nodes.csv, relationships.csv or the property copy.
C15_InputErrorBeforeOutput ==
  InputError =>
    /\ OutputNow = first_output
    /\ pc \notin {"save_relationships", "copy_properties", "done"}

\* The content a complete run writes to an output file.
new_output(p) ==
  CASE p = nodes_csv -> nodes_df
    [] p = relationships_csv -> relations_df
    [] p = property_copy -> fs[property_csv]

\* C16: after a failed write, every output path is as it was before the run
\* (absent, or with its previous content) or holds its complete new content.
C16_OutputFailureAtomic ==
  pc = "output_error" =>
    \A p \in OutputFiles :
      \/ p \notin DOMAIN fs /\ p \notin DOMAIN first_output
      \/ p \in DOMAIN fs /\ p \in DOMAIN first_output /\ fs[p] = first_output[p]
      \/ p \in DOMAIN fs /\ fs[p] = new_output(p)

\* C22: a cited source string with the es_ prefix is the NODE_ID of its
\* source node and the END_ID of the SOURCE edge of every side citing it,
\* with or without a property record of that ID.
C22_ExternalIdAsIs ==
  RunFinished =>
    LET sides == CitingSides(InputTriples)
    IN \A k \in 1..Len(sides) :
         IsExternalId(sides[k][3]) =>
           /\ \E n \in Range(NodesOut) :
                n.TYPE = source /\ n.NAME = sides[k][3] /\ n.NODE_ID = sides[k][3]
           /\ \A n \in Range(NodesOut) :
                (n.TYPE = source /\ n.NAME = sides[k][3] /\ ~IsEntityId(n.NODE_ID))
                  => n.NODE_ID = sides[k][3]
           /\ \E e \in Range(SourceEdgesOut) : \E n \in Range(NodesOut) :
                /\ e.END_ID = sides[k][3]
                /\ n.NODE_ID = e.START_ID /\ n.TYPE = sides[k][1] /\ n.NAME = sides[k][2]
           /\ Len(SourceEdgesOut) = Len(sides) => SourceEdgesOut[k].END_ID = sides[k][3]

\* C22's case: a run over a triple citing es_1 while no property record has
\* the ID es_1.
C22_Witness ==
  /\ RunFinished
  /\ es_1 \in CitedSources
  /\ \A p \in Range(InputProperties) : p.external_source_id # es_1
  /\ \E n \in Range(NodesOut) : n.NODE_ID = es_1
  /\ \E e \in Range(SourceEdgesOut) : e.END_ID = es_1

\* The NAME create_source_nodes gives the source node of source string r.
ResolvedName(r) ==
  IF IsExternalId(r) \/ properties_df = << >> THEN r
  ELSE get(source_mapping(properties_df), r, r)

\* C24: every SOURCE edge ends at a source node built by create_source_nodes,
\* and the edge of a citing side ends at the node built for the side's
\* source string.
C24_ResolverConsistency ==
  RunFinished =>
    LET sides == CitingSides(InputTriples)
    IN /\ \A e \in Range(SourceEdgesOut) :
            \E n \in Range(source_nodes) : n.NODE_ID = e.END_ID
       /\ Len(SourceEdgesOut) = Len(sides) =>
            \A k \in 1..Len(sides) :
              \E n \in Range(source_nodes) :
                n.NAME = ResolvedName(sides[k][3]) /\ n.NODE_ID = SourceEdgesOut[k].END_ID

\* The source rows of the node table, as create_relations_dataframe selects
\* them at line 219.
SourceRows == SelectSeq(nodes_df, LAMBDA n : n.TYPE = source)

\* C25: edge construction leaves its source frame as it found it (the
\* fallback that mints s_<len> is never taken), and every SOURCE edge ends at
\* a node of nodes.csv.
C25_FallbackNeverTaken ==
  RunFinished =>
    /\ source_loop(df, 1, SourceRows, << >>).source_nodes = SourceRows
    /\ \A e \in Range(SourceEdgesOut) : \E n \in Range(NodesOut) : n.NODE_ID = e.END_ID

\* C25's case: a run over a source string matched by its NAME (bare) and one
\* matched by the source_secondary of its record.
C25_Witness ==
  /\ RunFinished
  /\ \E r \in CitedSources :
       ~IsExternalId(r) /\ \E n \in Range(SourceRows) : n.NAME = r /\ IsBareSourceId(n.NODE_ID)
  /\ \E r \in CitedSources :
       ~IsExternalId(r) /\ \E n \in Range(SourceRows) :
                             n.source_secondary = r /\ IsExternalId(n.NODE_ID)

\* The distinct non-null source strings in first-occurrence order, the
\* x_source column before the y_source column.
CitedInOrder ==
  unique(concat(<<dropna(Column(InputTriples, "x_source")),
                  dropna(Column(InputTriples, "y_source"))>>))

PropertyIdsUnique ==
  \A i, j \in 1..Len(InputProperties) :
    i # j => InputProperties[i].external_source_id # InputProperties[j].external_source_id

\* A cited string that is no external ID and no record's secondary name.
IsBareString(r) ==
  /\ ~IsExternalId(r)
  /\ \A p \in Range(InputProperties) : p.source_secondary # r

\* C26: with unique external_source_id, the source node of the bare string at
\* zero-based position k of the distinct cited strings has the ID s_k.
C26_BareSourceNumbering ==
  (RunFinished /\ PropertyIdsUnique) =>
    \A k \in 1..Len(CitedInOrder) :
      IsBareString(CitedInOrder[k]) =>
        /\ \E n \in Range(NodesOut) :
             /\ n.TYPE = source /\ n.NAME = CitedInOrder[k]
             /\ n.NODE_ID = s_prefix \o str(k - 1)
        /\ \A n \in Range(NodesOut) :
             (n.TYPE = source /\ n.NAME = CitedInOrder[k] /\ IsBareSourceId(n.NODE_ID))
               => n.NODE_ID = s_prefix \o str(k - 1)

\* C26's case: a bare string cited after a known source: it is s_1, and no
\* node is s_0.
C26_Witness ==
  /\ RunFinished /\ PropertyIdsUnique
  /\ Len(CitedInOrder) >= 2
  /\ IsExternalId(CitedInOrder[1]) /\ IsBareString(CitedInOrder[2])
  /\ \E n \in Range(NodesOut) : n.NODE_ID = s_prefix \o str(1)
  /\ \A n \in Range(NodesOut) : n.NODE_ID # s_prefix \o str(0)

\* C27: relationships.csv has one main edge per triple with a relation and
\* one SOURCE edge per citing side, no more and no fewer.
C27_EdgeCountConservation ==
  RunFinished =>
    /\ Len(SelectSeq(RelationshipsOut, LAMBDA e : e.TYPE # SOURCE))
         = Len(SelectSeq(InputTriples, LAMBDA r : notna(r.relation)))
    /\ Len(SourceEdgesOut) = Len(CitingSides(InputTriples))

\* ------------------------------------------------------ select_environment
\* main() of the pipeline is idle: the other specifications leave it alone.
MainIdle ==
  /\ fs = << >> /\ pc = "idle" /\ df = << >> /\ properties_df = << >>
  /\ nodes_df = << >> /\ source_nodes = << >> /\ relations_df = << >>
  /\ rerun = FALSE /\ first_output = << >>

dev == <<"d", "e", "v">>
prod == <<"p", "r", "o", "d">>

Runs == {"run 1", "run 2"}

\* What a user types at the prompt: nothing, a valid name, a valid name in
\* other case or within blanks, other text.
PromptInputs ==
  {<< >>, dev, prod, <<"D", "E", "V">>, <<" ", "P", "r", "o", "d", " ">>,
   <<" ">>, <<"x">>, <<"d", "e", "v", "1">>}

\* str.strip(): without leading and trailing blanks.
RECURSIVE lstrip(_)
lstrip(s) == IF s # << >> /\ Head(s) = " " THEN lstrip(Tail(s)) ELSE s
RECURSIVE rstrip(_)
rstrip(s) == IF s # << >> /\ s[Len(s)] = " " THEN rstrip(SubSeq(s, 1, Len(s) - 1)) ELSE s
strip(s) == rstrip(lstrip(s))

\* As normalize, but the input's case is kept.
normalize_keep_case(s) == strip(s)

\* Line 16: input(...).lower().strip()
normalize(s) == strip(lower(s))

\* As output_dir, but one output directory for all environments.
output_dir_shared(e) == [env |-> << >>, dir |-> "output"]

\* Line 30: f"{env}/output"
output_dir(e) == [env |-> e, dir |-> "output"]

\* f'{env}/input/<name>', lines 300-303 and 324
input_file(e, name) == [env |-> e, dir |-> "input", name |-> name]

\* f'{output_dir}/<name>', lines 318-325
output_file(dir, name) == [env |-> dir.env, dir |-> dir.dir, name |-> name]

InitRuns ==
  /\ MainIdle /\ ImporterIdle /\ LoaderIdle
  /\ run_pc = [p \in Runs |-> "select_environment"]
  /\ env = [p \in Runs |-> << >>]
  /\ last_input = [p \in Runs |-> << >>]
  /\ accessed = [p \in Runs |-> {}]

\* One turn of the loop of select_environment (lines 15-21), called at line 294.
SelectEnvironment(p) ==
  /\ run_pc[p] = "select_environment"
  /\ \E typed \in PromptInputs :
       /\ last_input' = [last_input EXCEPT ![p] = <<typed>>]
       /\ IF normalize(typed) = << >>
          THEN /\ env' = [env EXCEPT ![p] = dev]
               /\ run_pc' = [run_pc EXCEPT ![p] = "ensure_output_dir"]
          ELSE IF normalize(typed) \in {dev, prod}
          THEN /\ env' = [env EXCEPT ![p] = normalize(typed)]
               /\ run_pc' = [run_pc EXCEPT ![p] = "ensure_output_dir"]
          ELSE UNCHANGED <<env, run_pc>>
  /\ UNCHANGED <<main_vars, import_vars, loader_vars, accessed>>

\* main, line 295: os.makedirs of the output directory
EnsureOutputDir(p) ==
  /\ run_pc[p] = "ensure_output_dir"
  /\ accessed' = [accessed EXCEPT ![p] = @ \cup {output_dir(env[p])}]
  /\ run_pc' = [run_pc EXCEPT ![p] = "load"]
  /\ UNCHANGED <<main_vars, import_vars, loader_vars, env, last_input>>

\* main, lines 299-303: the three input files are read
ReadInputs(p) ==
  /\ run_pc[p] = "load"
  /\ accessed' = [accessed EXCEPT ![p] =
                    @ \cup {input_file(env[p], "1_kg.csv"),
                            input_file(env[p], "2_other_resources_triple.csv"),
                            input_file(env[p], "3_other_resources_property.csv")}]
  /\ run_pc' = [run_pc EXCEPT ![p] = "save"]
  /\ UNCHANGED <<main_vars, import_vars, loader_vars, env, last_input>>

\* main, lines 318-319: the two tables are written
WriteTables(p) ==
  /\ run_pc[p] = "save"
  /\ accessed' = [accessed EXCEPT ![p] =
                    @ \cup {output_file(output_dir(env[p]), "nodes.csv"),
                            output_file(output_dir(env[p]), "relationships.csv")}]
  /\ run_pc' = [run_pc EXCEPT ![p] = "copy"]
  /\ UNCHANGED <<main_vars, import_vars, loader_vars, env, last_input>>

\* main, lines 323-326: the property file is copied
CopyPropertyFile(p) ==
  /\ run_pc[p] = "copy"
  /\ accessed' = [accessed EXCEPT ![p] =
                    @ \cup {input_file(env[p], "3_other_resources_property.csv"),
                            output_file(output_dir(env[p]), "other_resources_property.csv")}]
  /\ run_pc' = [run_pc EXCEPT ![p] = "done"]
  /\ UNCHANGED <<main_vars, import_vars, loader_vars, env, last_input>>

NextRuns ==
  \/ \E p \in Runs : SelectEnvironment(p)
  \/ \E p \in Runs : EnsureOutputDir(p)
  \/ \E p \in Runs : ReadInputs(p)
  \/ \E p \in Runs : WriteTables(p)
  \/ \E p \in Runs : CopyPropertyFile(p)

SpecRuns == InitRuns /\ [][NextRuns]_vars

\* The run has left select_environment.
Selected(p) == run_pc[p] # "select_environment"

\* C21: every path a run accesses lies under <env>/input or <env>/output of
\* its own environment, and two runs for different environments access no
\* common path, however their steps interleave.
C21_EnvironmentIsolation ==
  /\ \A p \in Runs : \A path \in accessed[p] :
       path.env = env[p] /\ path.dir \in {"input", "output"}
  /\ \A p, q \in Runs :
       (Selected(p) /\ Selected(q) /\ env[p] # env[q]) => accessed[p] \cap accessed[q] = {}

\* C21's case: two runs, one for dev and one for prod, have both written
\* their output.
C21_Witness ==
  /\ \A p \in Runs : run_pc[p] = "done"
  /\ {env[p] : p \in Runs} = {dev, prod}

\* The blanks-trimmed, lower-cased input is empty, dev or prod.
IsAccepted(typed) == strip(lower(typed)) \in {<< >>, dev, prod}

\* C23: select_environment has returned exactly when the last input was
\* empty or dev or prod after lower-casing and trimming; it returned dev for
\* an empty input and the trimmed lower-cased input otherwise.
C23_SelectEnvironment ==
  \A p \in Runs :
    /\ Selected(p) =>
         /\ env[p] \in {dev, prod}
         /\ last_input[p] # << >> /\ IsAccepted(last_input[p][1])
         /\ env[p] = IF strip(lower(last_input[p][1])) = << >> THEN dev
                     ELSE strip(lower(last_input[p][1]))
    /\ ~Selected(p) =>
         /\ env[p] = << >>
         /\ last_input[p] # << >> => ~IsAccepted(last_input[p][1])

\* C23's case: a run was asked again after an invalid input, and a run
\* returned prod for an input in other case within blanks.
C23_Witness ==
  /\ \E p \in Runs : ~Selected(p) /\ last_input[p] = <<(<<"d", "e", "v", "1">>)>>
  /\ \E p \in Runs : Selected(p) /\ env[p] = prod
                     /\ last_input[p] = <<(<<" ", "P", "r", "o", "d", " ">>)>>

\* ------------------------------------ pre_process_data/Primekg2Neo4jTriple
es_sources_of(nodes) ==
  SelectSeq(nodes, LAMBDA n : startswith(n.NAME, es_prefix))

\* Lines 98-103: the left merge of the es_ rows with the property table, one
\* row per matching record (a row of nulls when none matches), with a new
\* index 0, 1, ...
legacy_merge(es_sources, props) ==
  concat([i \in 1..Len(es_sources) |->
            LET matches == SelectSeq(props,
                                     LAMBDA p : p.external_source_id = es_sources[i].NAME)
            IN IF matches = << >>
               THEN <<es_sources[i] @@ [c \in property_columns |-> NaN]>>
               ELSE [j \in 1..Len(matches) |->
                       es_sources[i] @@ [c \in property_columns |-> matches[j][c]]]])

\* Lines 68-113 of the legacy variant: every source string gets s_<index>;
\* the property columns exist only when some NAME starts with es_, and
\* .loc[mask, col] = es_sources[col] aligns on the index label, so the es_ row
\* with label i takes the cell of the merged row with label i, or null when
\* the merged frame has no such row.
legacy_create_source_nodes(rows, props) ==
  LET ids == unique(concat(<<dropna(Column(rows, "x_source")),
                             dropna(Column(rows, "y_source"))>>))
      base == [i \in 1..Len(ids) |->
                 [TYPE |-> source, NAME |-> ids[i], NODE_ID |-> s_prefix \o str(i - 1)]]
      merged == legacy_merge(es_sources_of(base), props)
  IN IF es_sources_of(base) = << >> THEN base
     ELSE [i \in 1..Len(base) |->
             base[i] @@ [c \in property_columns |->
                           IF startswith(base[i].NAME, es_prefix) /\ i <= Len(merged)
                           THEN merged[i][c] ELSE NaN]]

primekg_csv == "1_primekg_Alzheimer.csv"
legacy_other_csv == "2_other_resources_triple.csv"
legacy_property_csv == "3_other_resources_property.csv"

\* The triple rows of the legacy runs: the subject cites a bare source or an
\* external ID, the object cites es_1 or nothing.
LegacyTripleRows ==
  {Triple(drug, <<"a">>, Rel, drug, <<"b">>, xs, ys) :
     xs \in {<<"G">>, es_1, es_2}, ys \in {es_1, NaN}}

\* Two records that differ in every cell they fill.
LegacyPropertyRows ==
  {Property(es_1, <<"G">>),
   [Property(es_2, <<"H">>) EXCEPT !.source_primary = <<"M">>, !.source_link = <<"K">>]}

InitLegacy ==
  \E rows \in Tables(LegacyTripleRows, 1, MaxTriples),
     props \in Tables(LegacyPropertyRows, 0, MaxProps) :
      /\ fs = [p \in {primekg_csv, legacy_other_csv, legacy_property_csv} |->
                 CASE p = primekg_csv -> SubSeq(rows, 1, 1)
                   [] p = legacy_other_csv -> SubSeq(rows, 2, Len(rows))
                   [] p = legacy_property_csv -> props]
      /\ pc = "legacy_load"
      /\ df = << >>
      /\ properties_df = << >>
      /\ nodes_df = << >>
      /\ source_nodes = << >>
      /\ relations_df = << >>
      /\ rerun = FALSE
      /\ first_output = << >>
      /\ OtherProgramsIdle

\* legacy main, lines 203-204
LegacyLoadData ==
  /\ pc = "legacy_load"
  /\ df' = load_data_files(fs[primekg_csv], fs[legacy_other_csv])
  /\ properties_df' = load_properties(fs[legacy_property_csv])
  /\ pc' = "legacy_create_nodes"
  /\ UNCHANGED <<fs, nodes_df, source_nodes, relations_df, rerun, other_programs,
                 first_output>>

\* legacy main, line 208
LegacyCreateNodes ==
  /\ pc = "legacy_create_nodes"
  /\ nodes_df' = create_nodes_dataframe(df)
  /\ pc' = "legacy_create_source_nodes"
  /\ UNCHANGED <<fs, df, properties_df, source_nodes, relations_df, rerun,
                 other_programs, first_output>>

\* legacy main, line 209
LegacyCreateSourceNodes ==
  /\ pc = "legacy_create_source_nodes"
  /\ source_nodes' = legacy_create_source_nodes(df, properties_df)
  /\ pc' = "legacy_process_nodes"
  /\ UNCHANGED <<fs, df, properties_df, nodes_df, relations_df, rerun, other_programs,
                 first_output>>

NextLegacy ==
  \/ LegacyLoadData
  \/ LegacyCreateNodes
  \/ LegacyCreateSourceNodes

SpecLegacy == InitLegacy /\ [][NextLegacy]_vars

\* The cell of a row, null when the frame has no such column.
Cell(row, col) == IF col \in DOMAIN row THEN row[col] ELSE NaN

\* C28: in the legacy variant every source node named es_... carries the six
\* property values of a record whose external_source_id is its NAME (nulls
\* when there is no such record), and a bare source node carries none.
C28_LegacySourceProperties ==
  pc = "legacy_process_nodes" =>
    \A n \in Range(source_nodes) :
      IF startswith(n.NAME, es_prefix)
         /\ \E p \in Range(properties_df) : p.external_source_id = n.NAME
      THEN \E p \in Range(properties_df) :
             /\ p.external_source_id = n.NAME
             /\ \A col \in property_columns : Cell(n, col) = p[col]
      ELSE \A col \in property_columns : Cell(n, col) = NaN

\* ------------------------------------------------ 2_Neo4jTripleImport2Neo4j
\* The indexes the script drops and creates, in the order of its statements.
IndexNames == <<"source_nodeID", "guideline_nodeID", "concept_nodeID">>

\* As steps, but the relationships are imported before the nodes.
steps_relationships_first(s) ==
  IF s = "data"
  THEN <<"delete_all_data", "drop_indexes", "create_indexes", "import_relationships",
         "import_nodes", "import_external_source_properties">>
  ELSE <<"delete_all_data", "import_relationships", "import_nodes">>

\* The calls of the try block: data/2_Neo4jTripleImport2Neo4j.py, lines
\* 151-172, and pre_process_data/2_Neo4jTripleImport2Neo4j.py, lines 47-49.
steps(s) ==
  IF s = "data"
  THEN <<"delete_all_data", "drop_indexes", "create_indexes", "import_nodes",
         "import_relationships", "import_external_source_properties">>
  ELSE <<"delete_all_data", "import_nodes", "import_relationships">>

\* The statement after the call of method m: the next call, or the finally
\* block after the last one.
next_method(s, m) ==
  LET i == CHOOSE k \in 1..Len(steps(s)) : steps(s)[k] = m
  IN IF i < Len(steps(s)) THEN steps(s)[i + 1] ELSE "close"

\* The first k names of IndexNames.
first_indexes(k) == {IndexNames[i] : i \in 1..k}

\* The database before the import: empty or with data of an earlier import,
\* with some of the indexes; the driver is open (lines 142-146).
InitImport ==
  /\ MainIdle /\ RunsIdle /\ LoaderIdle
  /\ script \in {"data", "pre_process_data"}
  /\ importer_pc = "delete_all_data"
  /\ \E old \in SUBSET {"old"}, indexes \in SUBSET first_indexes(Len(IndexNames)) :
       db = [data |-> old, old_indexes |-> indexes, indexes |-> {}]
  /\ driver = "open"
  /\ calls = << >>
  /\ raised = "none"

\* Method m was called and returned (ok) or raised: an exception leaves the
\* try block for the finally block.
called(m, ok) ==
  /\ calls' = Append(calls, m)
  /\ importer_pc' = IF ok THEN next_method(script, m) ELSE "close"
  /\ raised' = IF ok THEN raised ELSE m
  /\ UNCHANGED <<main_vars, run_vars, loader_vars, script, driver>>

\* delete_all_data, lines 134-136
DeleteAllData ==
  /\ importer_pc = "delete_all_data"
  /\ \E ok \in BOOLEAN :
       /\ db' = IF ok THEN [db EXCEPT !.data = {}] ELSE db
       /\ called("delete_all_data", ok)

\* drop_indexes, lines 39-47: the first k statements succeed; the exception
\* of a failing statement is caught and printed.  Opening the session (line
\* 40) is outside the try and can raise.
DropIndexes ==
  /\ importer_pc = "drop_indexes"
  /\ \E ok \in BOOLEAN, k \in 0..Len(IndexNames) :
       /\ ~ok => k = 0
       /\ db' = [db EXCEPT !.old_indexes = @ \ first_indexes(k),
                           !.indexes = @ \ first_indexes(k)]
       /\ called("drop_indexes", ok)

\* create_indexes, lines 24-37: three drops, then three creations; the first
\* k statements succeed, the exception of a failing one is caught and printed.
CreateIndexes ==
  /\ importer_pc = "create_indexes"
  /\ \E ok \in BOOLEAN, k \in 0..(2 * Len(IndexNames)) :
       /\ ~ok => k = 0
       /\ LET dropped == first_indexes(IF k < Len(IndexNames) THEN k ELSE Len(IndexNames))
              created == first_indexes(IF k > Len(IndexNames) THEN k - Len(IndexNames) ELSE 0)
          IN db' = [db EXCEPT !.old_indexes = @ \ dropped,
                              !.indexes = (@ \ dropped) \cup created]
       /\ called("create_indexes", ok)

\* An import query (lines 49-132): it adds its kind of data; when it raises,
\* the batches committed before (IN TRANSACTIONS) stay.
import_query(m, kind) ==
  \E ok \in BOOLEAN, committed \in BOOLEAN :
    /\ ok => committed
    /\ (~ok /\ script # "data") => ~committed
    /\ db' = IF committed THEN [db EXCEPT !.data = @ \cup {kind}] ELSE db
    /\ called(m, ok)

\* import_nodes, lines 49-91
ImportNodes ==
  /\ importer_pc = "import_nodes"
  /\ import_query("import_nodes", "nodes")

\* import_relationships, lines 93-111
ImportRelationships ==
  /\ importer_pc = "import_relationships"
  /\ import_query("import_relationships", "relationships")

\* import_external_source_properties, lines 113-132
ImportExternalSourceProperties ==
  /\ importer_pc = "import_external_source_properties"
  /\ import_query("import_external_source_properties", "properties")

\* finally: importer.close(), lines 176-177
Close ==
  /\ importer_pc = "close"
  /\ driver' = "closed"
  /\ calls' = Append(calls, "close")
  /\ importer_pc' = "exit"
  /\ UNCHANGED <<main_vars, run_vars, loader_vars, script, db, raised>>

NextImport ==
  \/ DeleteAllData
  \/ DropIndexes
  \/ CreateIndexes
  \/ ImportNodes
  \/ ImportRelationships
  \/ ImportExternalSourceProperties
  \/ Close

SpecImport == InitImport /\ [][NextImport]_vars

\* Every call of b comes after a call of a.
CalledBefore(a, b) ==
  \A j \in 1..Len(calls) : calls[j] = b => \E i \in 1..(j - 1) : calls[i] = a

ImportMethods == {"import_nodes", "import_relationships", "import_external_source_properties"}

\* Delete before import, nodes before relationships before properties; no
\* call other than close after a call that raised; the driver is closed when
\* the script ends.
OrderedAndClosed ==
  /\ \A m \in ImportMethods : CalledBefore("delete_all_data", m)
  /\ (\E j \in 1..Len(calls) : calls[j] \in ImportMethods) => "old" \notin db.data
  /\ CalledBefore("import_nodes", "import_relationships")
  /\ CalledBefore("import_relationships", "import_external_source_properties")
  /\ raised # "none" =>
       \E j \in 1..Len(calls) :
         /\ calls[j] = raised
         /\ \A i \in (j + 1)..Len(calls) : calls[i] = "close"
  /\ importer_pc = "exit" => (driver = "closed" /\ calls[Len(calls)] = "close")

\* C29 as stated: the steps run in order, none after one that raised, the
\* driver is closed at the end, and when anything is imported the old data
\* is deleted and the old indexes are dropped.
C29_ImportAfterIndexesDropped ==
  /\ OrderedAndClosed
  /\ (\E j \in 1..Len(calls) : calls[j] \in ImportMethods) => db.old_indexes = {}

\* C29 as amended: the same, but of the indexes only the attempt is
\* ordered: in the data script drop_indexes is called before any import.
C29_ImportOrdering ==
  /\ OrderedAndClosed
  /\ script = "data" => \A m \in ImportMethods : CalledBefore("drop_indexes", m)

\* C29's case: the data script ended after import_relationships raised; the
\* nodes are imported although an old index is left.
C29_Witness ==
  /\ script = "data" /\ importer_pc = "exit" /\ driver = "closed"
  /\ raised = "import_relationships"
  /\ "nodes" \in db.data /\ db.old_indexes # {}

\* ---------------------------------------------------- utils/data_loader.py
loader_nodes_csv == "data/dev/output/nodes.csv"
loader_properties_csv == "data/dev/input/3_other_resources_property.csv"

\* str.split('_')
RECURSIVE split(_)
split(s) ==
  IF \A i \in 1..Len(s) : s[i] # "_" THEN <<s>>
  ELSE LET i == CHOOSE k \in 1..Len(s) : s[k] = "_" /\ \A j \in 1..(k - 1) : s[j] # "_"
       IN <<SubSeq(s, 1, i - 1)>> \o split(SubSeq(s, i + 1, Len(s)))

\* int(text) of a text of decimal digits
RECURSIVE int(_)
int(text) ==
  IF text = << >> THEN 0
  ELSE 10 * int(SubSeq(text, 1, Len(text) - 1))
       + (CHOOSE k \in 0..9 : Digits[k + 1] = text[Len(text)])

is_digits(text) ==
  text # << >> /\ \A i \in 1..Len(text) : \E k \in 1..10 : Digits[k] = text[i]

\* The columns load_source_properties reads from a record (lines 138-152).
loader_columns ==
  {"source_primary", "source_secondary", "name", "source_link", "source_date",
   "pubmed_id", "country_of_origin"}

\* Lines 138-142 raise for this record: a column is missing (KeyError), the
\* ID is null (AttributeError), has no second part (IndexError) or its
\* second part is no number (ValueError).
record_raises(row) ==
  \/ ~(loader_columns \cup {"external_source_id"} \subseteq DOMAIN row)
  \/ row.external_source_id = NaN
  \/ Len(split(row.external_source_id)) < 2
  \/ ~is_digits(split(row.external_source_id)[2])

\* Lines 140-142: 'es_1' becomes 's_1'.
source_id(external_id) == s_prefix \o str(int(split(external_id)[2]))

\* load_source_properties, lines 117-157, of a property file that exists:
\* the records keyed by source_id, a later record replacing an earlier one
\* with the same key; any exception makes the result the empty dict.
load_source_properties(rows) ==
  IF \E i \in 1..Len(rows) : record_raises(rows[i]) THEN << >>
  ELSE LET key(i) == source_id(rows[i].external_source_id)
           last(k) == CHOOSE i \in 1..Len(rows) :
                        key(i) = k /\ \A j \in 1..Len(rows) : key(j) = k => j <= i
       IN [k \in {key(i) : i \in 1..Len(rows)} |->
             [c \in loader_columns |-> rows[last(k)][c]]]

\* safe_read_neo4j_csv, lines 21-44, of a node file: the three columns renamed.
rename_column(c) ==
  CASE c = "NODE_ID" -> "node_id" [] c = "TYPE" -> "type" [] c = "NAME" -> "name"
    [] OTHER -> c
safe_read_neo4j_csv(rows) ==
  [i \in 1..Len(rows) |->
     [c \in {rename_column(k) : k \in DOMAIN rows[i]} |->
        rows[i][CHOOSE k \in DOMAIN rows[i] : rename_column(k) = c]]]

\* Lines 193-206: every source row whose node_id is a key of the dict takes
\* the dict's values in the dict's columns; the columns are created first.
enrich(nodes, props_dict) ==
  LET hit(i) == lower(nodes[i].type) = source /\ nodes[i].node_id \in DOMAIN props_dict
      any == \E i \in 1..Len(nodes) : hit(i)
  IN [i \in 1..Len(nodes) |->
        IF hit(i)
        THEN [c \in DOMAIN nodes[i] \cup loader_columns |->
                IF c \in loader_columns THEN props_dict[nodes[i].node_id][c]
                ELSE nodes[i][c]]
        ELSE IF any
        THEN [c \in DOMAIN nodes[i] \cup loader_columns |->
                IF c \in DOMAIN nodes[i] THEN nodes[i][c] ELSE NaN]
        ELSE nodes[i]]

\* The property records of the loader runs: es_1 without a secondary name,
\* es_2 with the secondary name "G".
LoaderPropertyRows == {Property(es_1, NaN), Property(es_2, <<"G">>)}

\* The record as the dashboard's property file holds it: with the name
\* column that load_source_properties reads.
with_name(row) == row @@ [name |-> row.title]

\* The files of the dashboard: nodes.csv as the pipeline writes it for a
\* triple table and a property table, and the property file with the same
\* records, with or without the name column.
InitLoader ==
  \E rows \in Tables(ErrorTripleRows, 1, MaxTriples),
     props \in Tables(LoaderPropertyRows, 0, MaxProps),
     has_name \in BOOLEAN :
      /\ fs = [p \in {loader_nodes_csv, loader_properties_csv} |->
                 IF p = loader_nodes_csv THEN NodesOf(rows, props)
                 ELSE IF has_name THEN [i \in 1..Len(props) |-> with_name(props[i])]
                 ELSE props]
      /\ pc = "idle"
      /\ df = << >>
      /\ properties_df = << >>
      /\ nodes_df = << >>
      /\ source_nodes = << >>
      /\ relations_df = << >>
      /\ rerun = FALSE
      /\ first_output = << >>
      /\ RunsIdle /\ ImporterIdle
      /\ loader_pc = "load_source_properties"
      /\ source_properties = << >>
      /\ loaded_nodes = << >>

\* load_data, line 181
LoadSourceProperties ==
  /\ loader_pc = "load_source_properties"
  /\ source_properties' = load_source_properties(fs[loader_properties_csv])
  /\ loader_pc' = "read_nodes"
  /\ UNCHANGED <<main_vars, run_vars, import_vars, loaded_nodes>>

\* load_data, lines 185-191
ReadNodes ==
  /\ loader_pc = "read_nodes"
  /\ loaded_nodes' = safe_read_neo4j_csv(fs[loader_nodes_csv])
  /\ loader_pc' = "enrich"
  /\ UNCHANGED <<main_vars, run_vars, import_vars, source_properties>>

\* load_data, lines 193-206
EnrichSourceNodes ==
  /\ loader_pc = "enrich"
  /\ loaded_nodes' = enrich(loaded_nodes, source_properties)
  /\ loader_pc' = "read_relationships"
  /\ UNCHANGED <<main_vars, run_vars, import_vars, source_properties>>

NextLoader ==
  \/ LoadSourceProperties
  \/ ReadNodes
  \/ EnrichSourceNodes

SpecLoader == InitLoader /\ [][NextLoader]_vars

\* The row of nodes.csv as it was read, before the enrichment.
NodeAsRead(i) == safe_read_neo4j_csv(fs[loader_nodes_csv])[i]

\* Some cell of node i was set by the enrichment.
Enriched(i) ==
  \E col \in DOMAIN loaded_nodes[i] : loaded_nodes[i][col] # Cell(NodeAsRead(i), col)

\* C30: after the enrichment, a node carries attached fields only when its
\* node_id is the external_source_id of a property record, whose fields they
\* are; no bare source node s_k carries attached fields.
C30_PropertiesAttachedToTheirNode ==
  loader_pc = "read_relationships" =>
    \A i \in 1..Len(loaded_nodes) :
      Enriched(i) =>
        /\ ~IsBareSourceId(loaded_nodes[i].node_id)
        /\ \E p \in Range(fs[loader_properties_csv]) :
             /\ p.external_source_id = loaded_nodes[i].node_id
             /\ \A col \in loader_columns : loaded_nodes[i][col] = p[col]

=============================================================================
